---- MODULE Spec2Model ----
(***************************************************************************)
(* pkg/resource/unstructured/client.go: WrapperClient, a client.Client     *)
(* that forwards every call to the client it wraps, handing it the         *)
(* *unstructured.Unstructured of an argument that implements Wrapper (or   *)
(* the *unstructured.UnstructuredList of a list that implements            *)
(* ListWrapper) in place of the argument.                                  *)
(*                                                                         *)
(* Every reference (a client, a status writer, an object, an error) is a   *)
(* record, so that any two of them can be compared.  A method of the       *)
(* package is an operator that yields the method's effect: the receiver    *)
(* after the call, the capability accessors it invoked on its argument,    *)
(* the calls it made on the wrapped client, and which of those calls'      *)
(* results it returns.                                                     *)
(***************************************************************************)
EXTENDS Naturals, Sequences, FiniteSets

\* The goroutines that call the client concurrently, each with the key,
\* patch and options it passes in its calls.
Requests ==
  [c1 |-> [key |-> "ns/foo", patch |-> "merge", opts |-> << >>],
   c2 |-> [key |-> "ns/bar", patch |-> "apply", opts |-> <<"opt1", "opt2">>]]
Callers == DOMAIN Requests

\* The clients a WrapperClient can be built over.
Kubes == {"kubeA"}

\* wrapperStatusClient values allocated in one behaviour.
MaxStatusClients == 2

\* The dynamic types of an argument: which of the two interfaces it implements.
Kinds == {"typed", "wrapper", "listWrapper", "both"}

NoKey == "noKey"
NoPatch == "noPatch"

\* What a call of the wrapped client returns.
Errs == {"nil", "NotFound", "Conflict"}

\* Configurations the wrapped client goes through (its status writer, scheme
\* and REST mapper are those of its current configuration).
Gens == {1, 2}

ObjectOps == {"Get", "Create", "Delete", "Update", "Patch", "DeleteAllOf"}
StatusOps == {"StatusUpdate", "StatusPatch"}
\* Operations after which the wrapped client has written the server's
\* answer into the object it was given.
Populating == {"Get", "List", "Create", "Update", "Patch"}

VARIABLES
  ctor,           \* the client NewClient was called with
  wc,             \* the WrapperClient
  gen,            \* the wrapped client's current configuration
  statusClients,  \* the wrapperStatusClient values allocated so far
  pc,             \* per caller: "ready" or "inflight" (inside the wrapped client)
  frame,          \* per caller: the call in flight, its arguments and effect
  done,           \* per caller: what the last completed call returned
  mem             \* per caller: the contents of its argument, part by part

vars == <<ctor, wc, gen, statusClients, pc, frame, done, mem>>

------------------------------------------------------------------------------
\* References.

Ref(type, id, n) == [type |-> type, id |-> id, gen |-> n]
KubeRef(k) == Ref("client", k, 0)
ErrRef(e) == Ref("error", e, 0)
NoRef == Ref("none", "none", 0)

\* The context of a request: each caller passes its own.
CtxOf(p) == Ref("context", p, 0)

\* An argument: the object caller p built, of dynamic type k.  part names
\* what the reference points at: the object itself, the Unstructured it
\* exposes, or the UnstructuredList it exposes.
Obj(p, k) == [owner |-> p, kind |-> k, part |-> "self"]
NoObj == [owner |-> "none", kind |-> "none", part |-> "none"]

ImplementsWrapper(obj) == obj.part = "self" /\ obj.kind \in {"wrapper", "both"}
ImplementsListWrapper(obj) == obj.part = "self" /\ obj.kind \in {"listWrapper", "both"}
GetUnstructured(obj) == [obj EXCEPT !.part = "u"]
GetUnstructuredList(obj) == [obj EXCEPT !.part = "ul"]

\* What the wrapped client's accessors return in its current configuration.
KubeStatus(k) == Ref("statusWriter", k.id, gen)
KubeScheme(k) == Ref("scheme", k.id, gen)
KubeRESTMapper(k) == Ref("restMapper", k.id, gen)

------------------------------------------------------------------------------
\* Effects.

KubeCall(recv, op, ctx, key, obj, patch, opts) ==
  [recv |-> recv, op |-> op, ctx |-> ctx, key |-> key, obj |-> obj,
   patch |-> patch, opts |-> opts]

AccessorCall(name, obj, result) == [name |-> name, on |-> obj, result |-> result]

\* self: the receiver after the call; returns: the index in calls of the
\* call whose result the method returns.
Effect(self, accessors, calls) ==
  [self |-> self, accessors |-> accessors, calls |-> calls, returns |-> 1]

------------------------------------------------------------------------------
\* The package.

NewClient(c) == [kube |-> c]

\* Faulty variant of Get: the options are not handed on.
GetDropsOptions(c, ctx, key, obj, opts) ==
  IF ImplementsWrapper(obj)
  THEN LET u == GetUnstructured(obj)
       IN  Effect(c, <<AccessorCall("GetUnstructured", obj, u)>>,
                  <<KubeCall(c.kube, "Get", ctx, key, u, NoPatch, << >>)>>)
  ELSE Effect(c, << >>, <<KubeCall(c.kube, "Get", ctx, key, obj, NoPatch, << >>)>>)

Get(c, ctx, key, obj, opts) ==
  IF ImplementsWrapper(obj)
  THEN LET u == GetUnstructured(obj)
       IN  Effect(c, <<AccessorCall("GetUnstructured", obj, u)>>,
                  <<KubeCall(c.kube, "Get", ctx, key, u, NoPatch, opts)>>)
  ELSE Effect(c, << >>, <<KubeCall(c.kube, "Get", ctx, key, obj, NoPatch, opts)>>)

\* Faulty variant of List: it probes Wrapper, as the object operations do.
ListProbesWrapper(c, ctx, list, opts) ==
  IF ImplementsWrapper(list)
  THEN LET u == GetUnstructured(list)
       IN  Effect(c, <<AccessorCall("GetUnstructured", list, u)>>,
                  <<KubeCall(c.kube, "List", ctx, NoKey, u, NoPatch, opts)>>)
  ELSE Effect(c, << >>, <<KubeCall(c.kube, "List", ctx, NoKey, list, NoPatch, opts)>>)

List(c, ctx, list, opts) ==
  IF ImplementsListWrapper(list)
  THEN LET u == GetUnstructuredList(list)
       IN  Effect(c, <<AccessorCall("GetUnstructuredList", list, u)>>,
                  <<KubeCall(c.kube, "List", ctx, NoKey, u, NoPatch, opts)>>)
  ELSE Effect(c, << >>, <<KubeCall(c.kube, "List", ctx, NoKey, list, NoPatch, opts)>>)

\* Faulty variant of Create: the client keeps the reference it handed on.
CreateRetains(c, ctx, obj, opts) ==
  IF ImplementsWrapper(obj)
  THEN LET u == GetUnstructured(obj)
       IN  Effect([kube |-> c.kube, last |-> u],
                  <<AccessorCall("GetUnstructured", obj, u)>>,
                  <<KubeCall(c.kube, "Create", ctx, NoKey, u, NoPatch, opts)>>)
  ELSE Effect([kube |-> c.kube, last |-> obj], << >>,
              <<KubeCall(c.kube, "Create", ctx, NoKey, obj, NoPatch, opts)>>)

Create(c, ctx, obj, opts) ==
  IF ImplementsWrapper(obj)
  THEN LET u == GetUnstructured(obj)
       IN  Effect(c, <<AccessorCall("GetUnstructured", obj, u)>>,
                  <<KubeCall(c.kube, "Create", ctx, NoKey, u, NoPatch, opts)>>)
  ELSE Effect(c, << >>, <<KubeCall(c.kube, "Create", ctx, NoKey, obj, NoPatch, opts)>>)

\* Faulty variant of Delete: the wrapped client's error is dropped.
DeleteSwallowsError(c, ctx, obj, opts) ==
  IF ImplementsWrapper(obj)
  THEN LET u == GetUnstructured(obj)
       IN  [Effect(c, <<AccessorCall("GetUnstructured", obj, u)>>,
                   <<KubeCall(c.kube, "Delete", ctx, NoKey, u, NoPatch, opts)>>)
              EXCEPT !.returns = 0]
  ELSE [Effect(c, << >>,
               <<KubeCall(c.kube, "Delete", ctx, NoKey, obj, NoPatch, opts)>>)
          EXCEPT !.returns = 0]

Delete(c, ctx, obj, opts) ==
  IF ImplementsWrapper(obj)
  THEN LET u == GetUnstructured(obj)
       IN  Effect(c, <<AccessorCall("GetUnstructured", obj, u)>>,
                  <<KubeCall(c.kube, "Delete", ctx, NoKey, u, NoPatch, opts)>>)
  ELSE Effect(c, << >>, <<KubeCall(c.kube, "Delete", ctx, NoKey, obj, NoPatch, opts)>>)

\* Faulty variant of Update: the object itself is handed on in both branches.
UpdateForwardsObject(c, ctx, obj, opts) ==
  IF ImplementsWrapper(obj)
  THEN LET u == GetUnstructured(obj)
       IN  Effect(c, <<AccessorCall("GetUnstructured", obj, u)>>,
                  <<KubeCall(c.kube, "Update", ctx, NoKey, obj, NoPatch, opts)>>)
  ELSE Effect(c, << >>, <<KubeCall(c.kube, "Update", ctx, NoKey, obj, NoPatch, opts)>>)

Update(c, ctx, obj, opts) ==
  IF ImplementsWrapper(obj)
  THEN LET u == GetUnstructured(obj)
       IN  Effect(c, <<AccessorCall("GetUnstructured", obj, u)>>,
                  <<KubeCall(c.kube, "Update", ctx, NoKey, u, NoPatch, opts)>>)
  ELSE Effect(c, << >>, <<KubeCall(c.kube, "Update", ctx, NoKey, obj, NoPatch, opts)>>)

\* Faulty variant of Patch: the Unstructured is kept in a field of the
\* client, which all callers share, and a kept one is handed on.
PatchCaching(c, ctx, obj, patch, opts) ==
  IF ImplementsWrapper(obj)
  THEN LET u == GetUnstructured(obj)
           kept == IF "cached" \in DOMAIN c THEN c.cached ELSE u
       IN  Effect([kube |-> c.kube, cached |-> kept],
                  <<AccessorCall("GetUnstructured", obj, u)>>,
                  <<KubeCall(c.kube, "Patch", ctx, NoKey, kept, patch, opts)>>)
  ELSE Effect(c, << >>, <<KubeCall(c.kube, "Patch", ctx, NoKey, obj, patch, opts)>>)

Patch(c, ctx, obj, patch, opts) ==
  IF ImplementsWrapper(obj)
  THEN LET u == GetUnstructured(obj)
       IN  Effect(c, <<AccessorCall("GetUnstructured", obj, u)>>,
                  <<KubeCall(c.kube, "Patch", ctx, NoKey, u, patch, opts)>>)
  ELSE Effect(c, << >>, <<KubeCall(c.kube, "Patch", ctx, NoKey, obj, patch, opts)>>)

\* Faulty variant of DeleteAllOf: GetUnstructured is invoked a second time
\* for the reference to hand on.
DeleteAllOfProbesTwice(c, ctx, obj, opts) ==
  IF ImplementsWrapper(obj)
  THEN LET u == GetUnstructured(obj)
       IN  Effect(c, <<AccessorCall("GetUnstructured", obj, u),
                       AccessorCall("GetUnstructured", obj, u)>>,
                  <<KubeCall(c.kube, "DeleteAllOf", ctx, NoKey, u, NoPatch, opts)>>)
  ELSE Effect(c, << >>, <<KubeCall(c.kube, "DeleteAllOf", ctx, NoKey, obj, NoPatch, opts)>>)

DeleteAllOf(c, ctx, obj, opts) ==
  IF ImplementsWrapper(obj)
  THEN LET u == GetUnstructured(obj)
       IN  Effect(c, <<AccessorCall("GetUnstructured", obj, u)>>,
                  <<KubeCall(c.kube, "DeleteAllOf", ctx, NoKey, u, NoPatch, opts)>>)
  ELSE Effect(c, << >>, <<KubeCall(c.kube, "DeleteAllOf", ctx, NoKey, obj, NoPatch, opts)>>)

\* The accessors: value is what the method returns, kubeAccessors the
\* accessors of the wrapped client it called.
\* Faulty variant of Status: the status client is made around the wrapped
\* client, not around its status writer.
StatusWrapsClient(c) ==
  [self |-> c, kubeAccessors |-> << >>, calls |-> << >>,
   value |-> [kube |-> c.kube]]

Status(c) ==
  [self |-> c, kubeAccessors |-> <<"Status">>, calls |-> << >>,
   value |-> [kube |-> KubeStatus(c.kube)]]

\* Faulty variant of Scheme: the scheme read when the client was built is
\* returned.
SchemeCached(c) ==
  [self |-> c, kubeAccessors |-> << >>, calls |-> << >>,
   value |-> Ref("scheme", c.kube.id, 1)]

Scheme(c) ==
  [self |-> c, kubeAccessors |-> <<"Scheme">>, calls |-> << >>,
   value |-> KubeScheme(c.kube)]

RESTMapper(c) ==
  [self |-> c, kubeAccessors |-> <<"RESTMapper">>, calls |-> << >>,
   value |-> KubeRESTMapper(c.kube)]

\* Faulty variant of the status client's Update: the object itself is
\* handed on in both branches.
StatusUpdateForwardsObject(c, ctx, obj, opts) ==
  IF ImplementsWrapper(obj)
  THEN LET u == GetUnstructured(obj)
       IN  Effect(c, <<AccessorCall("GetUnstructured", obj, u)>>,
                  <<KubeCall(c.kube, "Update", ctx, NoKey, obj, NoPatch, opts)>>)
  ELSE Effect(c, << >>, <<KubeCall(c.kube, "Update", ctx, NoKey, obj, NoPatch, opts)>>)

StatusUpdate(c, ctx, obj, opts) ==
  IF ImplementsWrapper(obj)
  THEN LET u == GetUnstructured(obj)
       IN  Effect(c, <<AccessorCall("GetUnstructured", obj, u)>>,
                  <<KubeCall(c.kube, "Update", ctx, NoKey, u, NoPatch, opts)>>)
  ELSE Effect(c, << >>, <<KubeCall(c.kube, "Update", ctx, NoKey, obj, NoPatch, opts)>>)

StatusPatch(c, ctx, obj, patch, opts) ==
  IF ImplementsWrapper(obj)
  THEN LET u == GetUnstructured(obj)
       IN  Effect(c, <<AccessorCall("GetUnstructured", obj, u)>>,
                  <<KubeCall(c.kube, "Patch", ctx, NoKey, u, patch, opts)>>)
  ELSE Effect(c, << >>, <<KubeCall(c.kube, "Patch", ctx, NoKey, obj, patch, opts)>>)

------------------------------------------------------------------------------
\* The callers and the wrapped client.

Parts == {"self", "u", "ul"}
FreshMem == [part \in Parts |-> "zero"]

WrapperRef == Ref("wrapperClient", "wc", 0)
StatusClientRef(i) == Ref("statusClient", "sc", i)

NoFrame ==
  [op |-> "none", recv |-> NoRef, ctx |-> NoRef, key |-> NoKey, obj |-> NoObj,
   patch |-> NoPatch, opts |-> << >>, accessors |-> << >>, calls |-> << >>,
   returns |-> 0]

NoDone ==
  [class |-> "none", capable |-> FALSE, wrote |-> FALSE, kubeRet |-> NoRef,
   ret |-> NoRef, kubeAccessors |-> << >>, storeCalls |-> 0]

Init ==
  /\ ctor \in {KubeRef(k) : k \in Kubes}
  /\ wc = NewClient(ctor)
  /\ gen = 1
  /\ statusClients = << >>
  /\ pc = [p \in Callers |-> "ready"]
  /\ frame = [p \in Callers |-> NoFrame]
  /\ done = [p \in Callers |-> NoDone]
  /\ mem = [p \in Callers |-> FreshMem]

\* Caller p, holding a fresh argument, enters a method of the WrapperClient:
\* the method runs up to its call of the wrapped client, which is then in
\* flight.
Enter(p, op, key, obj, patch, opts, eff) ==
  /\ pc[p] = "ready"
  /\ pc' = [pc EXCEPT ![p] = "inflight"]
  /\ frame' = [frame EXCEPT ![p] =
       [op |-> op, recv |-> WrapperRef, ctx |-> CtxOf(p), key |-> key,
        obj |-> obj, patch |-> patch, opts |-> opts,
        accessors |-> eff.accessors, calls |-> eff.calls,
        returns |-> eff.returns]]
  /\ wc' = eff.self
  /\ done' = [done EXCEPT ![p] = NoDone]
  /\ mem' = [mem EXCEPT ![p] = FreshMem]
  /\ UNCHANGED <<ctor, gen, statusClients>>

\* The same for a method of the i-th wrapperStatusClient.
EnterStatus(p, i, op, obj, patch, opts, eff) ==
  /\ pc[p] = "ready"
  /\ pc' = [pc EXCEPT ![p] = "inflight"]
  /\ frame' = [frame EXCEPT ![p] =
       [op |-> op, recv |-> StatusClientRef(i), ctx |-> CtxOf(p), key |-> NoKey,
        obj |-> obj, patch |-> patch, opts |-> opts,
        accessors |-> eff.accessors, calls |-> eff.calls,
        returns |-> eff.returns]]
  /\ statusClients' = [statusClients EXCEPT ![i] = eff.self]
  /\ done' = [done EXCEPT ![p] = NoDone]
  /\ mem' = [mem EXCEPT ![p] = FreshMem]
  /\ UNCHANGED <<ctor, wc, gen>>

CallGet(p) ==
  \E k \in Kinds :
    LET r == Requests[p]
    IN  Enter(p, "Get", r.key, Obj(p, k), NoPatch, r.opts,
              Get(wc, CtxOf(p), r.key, Obj(p, k), r.opts))

CallList(p) ==
  \E k \in Kinds :
    LET r == Requests[p]
    IN  Enter(p, "List", NoKey, Obj(p, k), NoPatch, r.opts,
              List(wc, CtxOf(p), Obj(p, k), r.opts))

CallCreate(p) ==
  \E k \in Kinds :
    LET r == Requests[p]
    IN  Enter(p, "Create", NoKey, Obj(p, k), NoPatch, r.opts,
              Create(wc, CtxOf(p), Obj(p, k), r.opts))

CallDelete(p) ==
  \E k \in Kinds :
    LET r == Requests[p]
    IN  Enter(p, "Delete", NoKey, Obj(p, k), NoPatch, r.opts,
              Delete(wc, CtxOf(p), Obj(p, k), r.opts))

CallUpdate(p) ==
  \E k \in Kinds :
    LET r == Requests[p]
    IN  Enter(p, "Update", NoKey, Obj(p, k), NoPatch, r.opts,
              Update(wc, CtxOf(p), Obj(p, k), r.opts))

CallPatch(p) ==
  \E k \in Kinds :
    LET r == Requests[p]
    IN  Enter(p, "Patch", NoKey, Obj(p, k), r.patch, r.opts,
              Patch(wc, CtxOf(p), Obj(p, k), r.patch, r.opts))

CallDeleteAllOf(p) ==
  \E k \in Kinds :
    LET r == Requests[p]
    IN  Enter(p, "DeleteAllOf", NoKey, Obj(p, k), NoPatch, r.opts,
              DeleteAllOf(wc, CtxOf(p), Obj(p, k), r.opts))

CallStatusUpdate(p) ==
  \E i \in DOMAIN statusClients, k \in Kinds :
    LET r == Requests[p]
    IN  EnterStatus(p, i, "StatusUpdate", Obj(p, k), NoPatch, r.opts,
                    StatusUpdate(statusClients[i], CtxOf(p), Obj(p, k), r.opts))

CallStatusPatch(p) ==
  \E i \in DOMAIN statusClients, k \in Kinds :
    LET r == Requests[p]
    IN  EnterStatus(p, i, "StatusPatch", Obj(p, k), r.patch, r.opts,
                    StatusPatch(statusClients[i], CtxOf(p), Obj(p, k), r.patch, r.opts))

\* Whether the method op probes, and finds, a capability of its argument.
Capable(op, obj) ==
  IF op = "List" THEN obj.kind \in {"listWrapper", "both"}
  ELSE obj.kind \in {"wrapper", "both"}

\* The wrapped client answers the calls caller p's method made: it returns
\* err and, when it succeeded at an operation that populates its argument,
\* may have written the server's answer into the reference it was given.
\* The method returns.
Complete(p) ==
  /\ pc[p] = "inflight"
  /\ \E err \in Errs, wrote \in BOOLEAN :
       LET f == frame[p]
           hit(q, part) ==
             \E i \in DOMAIN f.calls :
               f.calls[i].obj.owner = q /\ f.calls[i].obj.part = part
       IN  /\ wrote =>
                /\ err = "nil"
                /\ f.calls # << >>
                /\ \A i \in DOMAIN f.calls : f.calls[i].op \in Populating
           /\ mem' = [q \in Callers |-> [part \in Parts |->
                        IF wrote /\ hit(q, part) THEN "server" ELSE mem[q][part]]]
           /\ done' = [done EXCEPT ![p] =
                [class |-> IF f.op = "List" THEN "list" ELSE "object",
                 capable |-> Capable(f.op, f.obj),
                 wrote |-> wrote,
                 kubeRet |-> ErrRef(err),
                 ret |-> IF f.returns \in DOMAIN f.calls
                         THEN ErrRef(err) ELSE ErrRef("nil"),
                 kubeAccessors |-> << >>, storeCalls |-> 0]]
  /\ pc' = [pc EXCEPT ![p] = "ready"]
  /\ frame' = [frame EXCEPT ![p] = NoFrame]
  /\ UNCHANGED <<ctor, wc, gen, statusClients>>

\* The accessors return at once.
CallStatus(p) ==
  /\ pc[p] = "ready"
  /\ Len(statusClients) < MaxStatusClients
  /\ LET eff == Status(wc)
     IN  /\ wc' = eff.self
         /\ statusClients' = Append(statusClients, eff.value)
         /\ done' = [done EXCEPT ![p] =
              [class |-> "Status", capable |-> FALSE, wrote |-> FALSE,
               kubeRet |-> KubeStatus(ctor),
               ret |-> StatusClientRef(Len(statusClients) + 1),
               kubeAccessors |-> eff.kubeAccessors,
               storeCalls |-> Len(eff.calls)]]
  /\ mem' = [mem EXCEPT ![p] = FreshMem]
  /\ UNCHANGED <<ctor, gen, pc, frame>>

CallScheme(p) ==
  /\ pc[p] = "ready"
  /\ LET eff == Scheme(wc)
     IN  /\ wc' = eff.self
         /\ done' = [done EXCEPT ![p] =
              [class |-> "Scheme", capable |-> FALSE, wrote |-> FALSE,
               kubeRet |-> KubeScheme(ctor), ret |-> eff.value,
               kubeAccessors |-> eff.kubeAccessors,
               storeCalls |-> Len(eff.calls)]]
  /\ mem' = [mem EXCEPT ![p] = FreshMem]
  /\ UNCHANGED <<ctor, gen, statusClients, pc, frame>>

CallRESTMapper(p) ==
  /\ pc[p] = "ready"
  /\ LET eff == RESTMapper(wc)
     IN  /\ wc' = eff.self
         /\ done' = [done EXCEPT ![p] =
              [class |-> "RESTMapper", capable |-> FALSE, wrote |-> FALSE,
               kubeRet |-> KubeRESTMapper(ctor), ret |-> eff.value,
               kubeAccessors |-> eff.kubeAccessors,
               storeCalls |-> Len(eff.calls)]]
  /\ mem' = [mem EXCEPT ![p] = FreshMem]
  /\ UNCHANGED <<ctor, gen, statusClients, pc, frame>>

\* The wrapped client is reconfigured: from now on it hands out another
\* status writer, scheme and REST mapper.
Reconfigure ==
  /\ gen' \in Gens \ {gen}
  /\ UNCHANGED <<ctor, wc, statusClients, pc, frame, done, mem>>

Next ==
  \/ \E p \in Callers : CallGet(p)
  \/ \E p \in Callers : CallList(p)
  \/ \E p \in Callers : CallCreate(p)
  \/ \E p \in Callers : CallDelete(p)
  \/ \E p \in Callers : CallUpdate(p)
  \/ \E p \in Callers : CallPatch(p)
  \/ \E p \in Callers : CallDeleteAllOf(p)
  \/ \E p \in Callers : CallStatus(p)
  \/ \E p \in Callers : CallScheme(p)
  \/ \E p \in Callers : CallRESTMapper(p)
  \/ \E p \in Callers : CallStatusUpdate(p)
  \/ \E p \in Callers : CallStatusPatch(p)
  \/ \E p \in Callers : Complete(p)
  \/ Reconfigure

Spec == Init /\ [][Next]_vars

------------------------------------------------------------------------------
\* Properties.

InFlight(p) == pc[p] = "inflight"
OnClient(p) == InFlight(p) /\ frame[p].recv = WrapperRef
OnStatus(p) == InFlight(p) /\ frame[p].recv.type = "statusClient"
Returned(p) == pc[p] = "ready" /\ done[p].class \in {"object", "list"}

\* The call of the wrapped client that forwards caller p's arguments with
\* obj in the place of its argument.
Forwarded(p, recv, op, obj) ==
  KubeCall(recv, op, frame[p].ctx, frame[p].key, obj, frame[p].patch,
           frame[p].opts)

\* C1: an object that does not implement Wrapper, and a list that does not
\* implement ListWrapper, reaches the wrapped client's operation of the same
\* name as the identical reference, with the caller's context, key, patch
\* and options.
C1_PlainForwarded ==
  \A p \in Callers :
    (OnClient(p) /\ ~Capable(frame[p].op, frame[p].obj)) =>
      \E i \in DOMAIN frame[p].calls :
        frame[p].calls[i] = Forwarded(p, ctor, frame[p].op, frame[p].obj)

C1_Witness ==
  \E p \in Callers :
    /\ OnClient(p) /\ frame[p].op = "Get" /\ frame[p].obj.kind = "typed"
    /\ frame[p].opts # << >> /\ frame[p].calls # << >>

\* C2: an object that implements Wrapper reaches the wrapped client's
\* operation of the same name as the reference its GetUnstructured()
\* returns, never as the object itself, with the caller's context, key,
\* patch and options.
C2_UnstructuredForwarded ==
  \A p \in Callers :
    (OnClient(p) /\ frame[p].op \in ObjectOps /\ Capable(frame[p].op, frame[p].obj)) =>
      /\ \E i \in DOMAIN frame[p].calls :
           frame[p].calls[i] =
             Forwarded(p, ctor, frame[p].op, GetUnstructured(frame[p].obj))
      /\ \A i \in DOMAIN frame[p].calls : frame[p].calls[i].obj # frame[p].obj

C2_Witness ==
  \E p \in Callers :
    /\ OnClient(p) /\ frame[p].op = "Patch" /\ frame[p].obj.kind = "wrapper"
    /\ frame[p].opts # << >> /\ frame[p].calls # << >>

\* C3: what a method of the WrapperClient or of the status client returns
\* is the error the wrapped call returned, nil or not, on either branch.
C3_ErrorVerbatim ==
  \A p \in Callers : Returned(p) => done[p].ret = done[p].kubeRet

C3_Witness ==
  \E p, q \in Callers :
    /\ Returned(p) /\ done[p].capable /\ done[p].ret = ErrRef("NotFound")
    /\ Returned(q) /\ ~done[q].capable /\ done[q].ret = ErrRef("nil")

\* The name of the wrapped operation a method stands for.
KubeOp(op) ==
  IF op = "StatusUpdate" THEN "Update"
  ELSE IF op = "StatusPatch" THEN "Patch" ELSE op

\* The reference a method is to hand on in the place of its argument.
Target(op, obj) ==
  IF ~Capable(op, obj) THEN obj
  ELSE IF op = "List" THEN GetUnstructuredList(obj) ELSE GetUnstructured(obj)

StatusWriters == {Ref("statusWriter", ctor.id, g) : g \in Gens}

\* C4: Update and Patch of a client that Status() returned reach a status
\* writer of the wrapped client, never the wrapped client itself, with the
\* Unstructured of an object that implements Wrapper and with any other
\* object as it is, the patch and options unchanged.
C4_StatusForwarded ==
  \A p \in Callers :
    OnStatus(p) =>
      /\ \E i \in DOMAIN frame[p].calls, sw \in StatusWriters :
           frame[p].calls[i] =
             Forwarded(p, sw, KubeOp(frame[p].op),
                       Target(frame[p].op, frame[p].obj))
      /\ \A i \in DOMAIN frame[p].calls : frame[p].calls[i].recv \in StatusWriters

C4_Witness ==
  \E p, q \in Callers :
    /\ OnStatus(p) /\ frame[p].op = "StatusPatch" /\ frame[p].obj.kind = "wrapper"
    /\ frame[p].calls # << >>
    /\ OnStatus(q) /\ frame[q].op = "StatusUpdate" /\ frame[q].obj.kind = "typed"
    /\ frame[q].calls # << >>

\* C5: Scheme() and RESTMapper() return what the wrapped client returns at
\* that call, and Status() returns a new status client around the status
\* writer the wrapped client returns at that call.
C5_AccessorsNotCached ==
  \A p \in Callers :
    /\ done[p].class \in {"Scheme", "RESTMapper"} => done[p].ret = done[p].kubeRet
    /\ done[p].class = "Status" =>
         /\ done[p].ret.gen \in DOMAIN statusClients
         /\ statusClients[done[p].ret.gen] = [kube |-> done[p].kubeRet]
         /\ \A q \in Callers \ {p} :
              done[q].class = "Status" => done[q].ret # done[p].ret

C5_Witness ==
  \E p, q \in Callers :
    /\ done[p].class = "Scheme" /\ done[p].ret.gen = 2
    /\ done[q].class = "Status" /\ Len(statusClients) = 2
    /\ statusClients[1].kube # statusClients[2].kube

\* The WrapperClient holds the client NewClient was given and nothing else;
\* a status client holds a status writer of that client and nothing else.
C6_Shape ==
  /\ wc = [kube |-> ctor]
  /\ \A i \in DOMAIN statusClients : statusClients[i] \in [kube : StatusWriters]

\* No step changes a status client that exists.
C6_Kept ==
  \A i \in DOMAIN statusClients :
    i \in DOMAIN statusClients' /\ statusClients'[i] = statusClients[i]

\* C6: after any sequence of operations the WrapperClient targets the
\* client NewClient was given and a status client the status writer it was
\* made with, and neither holds a reference to anything passed to a call.
C6_TargetsFixed == [] C6_Shape /\ [][C6_Kept]_vars

C6_Witness ==
  \E p \in Callers :
    /\ Returned(p) /\ done[p].wrote
    /\ Len(statusClients) = 2 /\ statusClients[1].kube.gen # gen

\* C7: after a populating call on an argument that implements the
\* capability, into whose reference the wrapped client wrote, the exposed
\* Unstructured (or UnstructuredList) holds the server's answer and the
\* rest of the argument is as it was before the call.
C7_OnlyExposedPopulated ==
  \A p \in Callers :
    (Returned(p) /\ done[p].capable /\ done[p].wrote) =>
      mem[p] = [FreshMem EXCEPT ![IF done[p].class = "list" THEN "ul" ELSE "u"] = "server"]

C7_Witness ==
  \E p, q \in Callers :
    /\ Returned(p) /\ done[p].capable /\ done[p].wrote /\ mem[p]["u"] = "server"
    /\ Returned(q) /\ done[q].capable /\ done[q].wrote /\ mem[q]["ul"] = "server"

\* C8: List hands on the UnstructuredList exactly of a list that implements
\* ListWrapper, and the object operations hand on the Unstructured exactly
\* of an object that implements Wrapper; an argument with only the other
\* capability is handed on as it is.
C8_ProbeMatchesKind ==
  \A p \in Callers :
    OnClient(p) =>
      /\ frame[p].calls # << >>
      /\ \A i \in DOMAIN frame[p].calls :
           frame[p].calls[i].obj =
             IF frame[p].op = "List"
             THEN IF frame[p].obj.kind \in {"listWrapper", "both"}
                  THEN GetUnstructuredList(frame[p].obj) ELSE frame[p].obj
             ELSE IF frame[p].obj.kind \in {"wrapper", "both"}
                  THEN GetUnstructured(frame[p].obj) ELSE frame[p].obj

C8_Witness ==
  \E p, q \in Callers :
    /\ OnClient(p) /\ frame[p].op = "List" /\ frame[p].obj.kind = "wrapper"
    /\ frame[p].calls # << >>
    /\ OnClient(q) /\ frame[q].op = "Get" /\ frame[q].obj.kind = "listWrapper"
    /\ frame[q].calls # << >>

\* C9: a method makes one call of the wrapped client (or status writer),
\* of the operation it stands for; it invokes the capability accessor once
\* when the argument has the capability, handing on its result, and not at
\* all otherwise.  Status() calls the wrapped client's Status() and nothing
\* else.
C9_OneCall ==
  \A p \in Callers :
    /\ InFlight(p) =>
         /\ Len(frame[p].calls) = 1
         /\ frame[p].calls[1].op = KubeOp(frame[p].op)
         /\ frame[p].accessors =
              IF Capable(frame[p].op, frame[p].obj)
              THEN <<AccessorCall(IF frame[p].op = "List" THEN "GetUnstructuredList"
                                  ELSE "GetUnstructured",
                                  frame[p].obj, frame[p].calls[1].obj)>>
              ELSE << >>
    /\ done[p].class = "Status" =>
         done[p].kubeAccessors = <<"Status">> /\ done[p].storeCalls = 0

C9_Witness ==
  \E p, q \in Callers :
    /\ InFlight(p) /\ Capable(frame[p].op, frame[p].obj) /\ Len(frame[p].accessors) = 1
    /\ done[q].class = "Status" /\ Len(done[q].kubeAccessors) = 1

\* Every call in flight hands the wrapped client its caller's own context,
\* object, key, patch and options.
C10_Own ==
  \A p \in Callers :
    InFlight(p) =>
      /\ frame[p].calls # << >>
      /\ \A i \in DOMAIN frame[p].calls :
           /\ frame[p].calls[i].ctx = CtxOf(p)
           /\ frame[p].calls[i].obj.owner = p
           /\ frame[p].calls[i].key = frame[p].key
           /\ frame[p].calls[i].patch = frame[p].patch
           /\ frame[p].calls[i].opts = frame[p].opts

\* A caller entering or leaving a method changes neither the WrapperClient
\* nor the call, the result or the argument of another caller.
C10_Apart ==
  \A p \in Callers :
    pc'[p] # pc[p] =>
      /\ wc' = wc
      /\ \A q \in Callers \ {p} :
           frame'[q] = frame[q] /\ done'[q] = done[q] /\ mem'[q] = mem[q]

\* C10: with the calls of several callers interleaved in any order, each
\* call hands the wrapped client its own context, object, key, patch and
\* options and nothing of another call, and no call changes the
\* WrapperClient or what another call hands on, returns or populates.
C10_Concurrent == [] C10_Own /\ [][C10_Apart]_vars

C10_Witness ==
  /\ \A p \in Callers :
       /\ InFlight(p) /\ frame[p].op = "Patch" /\ frame[p].obj.kind = "wrapper"
       /\ frame[p].calls # << >>
  /\ \E p, q \in Callers : frame[p].opts # frame[q].opts

====
